---- MODULE Spec2Model ----
(***************************************************************************)
(* Verification model of svlang's compound-word splitter                   *)
(* (src/src/svlang/checkers/compound.py), its consistency checker          *)
(* (checkers/consistency.py) and its lexicon (checkers/lexicon.py).        *)
(*                                                                         *)
(* A word is a sequence of characters; a character is a one-element token  *)
(* written as a TLA+ string ("a", "S", ...).  The Swedish letters a-ring,  *)
(* a-umlaut and o-umlaut are the single tokens "aa", "ae" and "oe" (and    *)
(* "AA", "AE", "OE" in upper case): each is ONE character of a word.       *)
(***************************************************************************)
EXTENDS Integers, Sequences, FiniteSets, TLC

(***************************************************************************)
(* Bounds of the model.                                                    *)
(***************************************************************************)
\* longest generic input word handed to split
MaxLen == 6
\* largest generic wordlist (number of entries, number of resource lines)
MaxDictSize == 2
\* longest chain of one repeated morpheme handed to split
MaxChain == 8
\* number of threads calling split at the same time
NumThreads == 2
\* number of add calls made on one ConsistencyChecker
MaxAdds == 4
\* number of lines of the lexicon file
MaxLines == 3
\* largest limit handed to search and reverse_lookup
MaxLimit == 3

(***************************************************************************)
(* Program constants.                                                      *)
(***************************************************************************)
\* mutant: a minimum part length of one character
MinPartLenOne == 2 - 1

\* self._min_part_len = 2
MinPartLen == 2
\* "if depth > 5: return None"
MaxDepth == 5

(***************************************************************************)
(* Characters, str.lower() and str.strip().                                *)
(***************************************************************************)
UpperLower ==
    { <<"A","a">>, <<"B","b">>, <<"C","c">>, <<"D","d">>, <<"E","e">>, <<"F","f">>,
      <<"G","g">>, <<"H","h">>, <<"I","i">>, <<"J","j">>, <<"K","k">>, <<"L","l">>,
      <<"M","m">>, <<"N","n">>, <<"O","o">>, <<"P","p">>, <<"Q","q">>, <<"R","r">>,
      <<"S","s">>, <<"T","t">>, <<"U","u">>, <<"V","v">>, <<"W","w">>, <<"X","x">>,
      <<"Y","y">>, <<"Z","z">>, <<"AA","aa">>, <<"AE","ae">>, <<"OE","oe">> }

UpperChars == { p[1] : p \in UpperLower }

LowerChars == { p[2] : p \in UpperLower }

ToLower == [ c \in UpperChars |-> (CHOOSE p \in UpperLower : p[1] = c)[2] ]

ToUpper == [ c \in LowerChars |-> (CHOOSE p \in UpperLower : p[2] = c)[1] ]

\* one character of str.lower(): upper-case letters map to their lower-case
\* letter, every other character is unchanged
LowerChar(c) == IF c \in UpperChars THEN ToLower[c] ELSE c

\* str.lower()
Lower(word) == [ k \in 1..Len(word) |-> LowerChar(word[k]) ]

RECURSIVE LStrip(_)
LStrip(line) ==
    IF line # <<>> /\ Head(line) = " " THEN LStrip(Tail(line)) ELSE line

RECURSIVE RStrip(_)
RStrip(line) ==
    IF line # <<>> /\ line[Len(line)] = " "
    THEN RStrip(SubSeq(line, 1, Len(line) - 1))
    ELSE line

\* str.strip()
Strip(line) == RStrip(LStrip(line))

\* str.startswith(prefix)
StartsWith(word, prefix) ==
    /\ Len(prefix) <= Len(word)
    /\ SubSeq(word, 1, Len(prefix)) = prefix

(***************************************************************************)
(* Optional values: Python's None against a list.                          *)
(***************************************************************************)
None == [some |-> FALSE, val |-> <<>>]

Some(list) == [some |-> TRUE, val |-> list]

\* Python truthiness of "list | None": None and the empty list are falsy
Truthy(opt) == opt.some /\ opt.val # <<>>

(***************************************************************************)
(* The built-in vocabulary _BUILTIN_WORDS (a set: repeated literals of the *)
(* source collapse).                                                       *)
(***************************************************************************)
BUILTIN_WORDS == {
    <<"b","a","r","n">>, <<"b","i","l">>, <<"b","o","k">>, <<"b","o","r","d">>,
    <<"b","r","e","v">>, <<"b","r","o">>, <<"d","a","g">>, <<"d","a","t","o","r">>,
    <<"d","e","l">>, <<"d","j","u","r">>, <<"d","oe","r","r">>, <<"f","i","s","k">>,
    <<"f","l","y","g">>, <<"f","o","l","k">>, <<"f","o","t">>, <<"f","ae","r","g">>,
    <<"f","oe","r","e","n","i","n","g">>, <<"g","a","t","a">>, <<"g","l","a","s">>,
    <<"g","o","l","v">>, <<"g","aa","r","d">>, <<"h","a","n","d">>, <<"h","e","m">>,
    <<"h","j","u","l">>, <<"h","u","n","d">>, <<"h","u","s">>, <<"h","aa","r">>,
    <<"j","o","r","d">>, <<"k","a","t","t">>, <<"k","l","a","s","s">>,
    <<"k","l","o","c","k","a">>, <<"k","o","n","s","t">>, <<"k","r","a","f","t">>,
    <<"k","r","o","p","p">>, <<"k","u","n","g">>, <<"k","v","i","n","n","a">>,
    <<"k","ae","l","l","a">>, <<"l","a","g">>, <<"l","a","n","d">>, <<"l","j","u","s">>,
    <<"l","u","f","t">>, <<"l","ae","g","e","n","h","e","t">>, <<"m","a","n">>,
    <<"m","a","t">>, <<"m","a","r","k">>, <<"m","o","r">>, <<"m","u","s","i","k">>,
    <<"n","a","t","t">>, <<"n","a","m","n">>, <<"n","y","c","k","e","l">>, <<"o","r","d">>,
    <<"p","a","p","p","e","r">>, <<"p","l","a","t","s">>, <<"p","o","l","i","s">>,
    <<"p","r","o","g","r","a","m">>, <<"r","u","m">>, <<"r","ae","t","t">>, <<"s","j","oe">>,
    <<"s","k","o","g">>, <<"s","k","o","l","a">>, <<"s","o","l">>, <<"s","t","a","d">>,
    <<"s","t","o","l">>, <<"s","t","r","oe","m">>, <<"s","y","s","t","e","m">>,
    <<"t","a","k">>, <<"t","i","d">>, <<"t","r","a","f","i","k">>, <<"t","r","ae">>,
    <<"v","a","g","n">>, <<"v","a","k","t">>, <<"v","a","t","t","e","n">>, <<"v","i","n">>,
    <<"v","i","n","d">>, <<"v","ae","g">>, <<"v","ae","g","g">>, <<"v","ae","r","l","d">>,
    <<"v","ae","x","t">>, <<"y","t","a">>, <<"oe","g","a">>, <<"oe","r","a">>,
    <<"b","a","n","a">>, <<"b","a","n","k">>, <<"b","u","t","i","k">>,
    <<"f","a","b","r","i","k">>, <<"k","y","r","k","a">>, <<"p","l","a","n">>,
    <<"s","j","u","k","h","u","s">>, <<"s","t","a","t","i","o","n">>,
    <<"t","o","r","g","e","t">>, <<"t","u","n","n","e","l">>, <<"b","o","l","l">>,
    <<"b","r","a","n","d">>, <<"b","r","u","k">>, <<"b","y">>, <<"b","aa","t">>,
    <<"f","l","o","d">>, <<"h","a","m","n">>, <<"h","y","r","a">>, <<"i","s">>,
    <<"j","ae","r","n">>, <<"k","r","i","g">>, <<"k","u","s","t">>, <<"k","oe","p">>,
    <<"l","e","d","a">>, <<"m","o","t">>, <<"p","a","r","k">>, <<"r","e","s","a">>,
    <<"r","i","n","g">>, <<"s","a","n","d">>, <<"s","j","u","k">>, <<"s","n","oe">>,
    <<"s","aa","n","g">>, <<"t","o","r","g">>, <<"t","aa","g">>, <<"v","a","p","e","n">>,
    <<"v","aa","r","d">>, <<"f","o","t","b","o","l","l">>, <<"h","a","n","d","b","o","l","l">>,
    <<"i","s","h","o","c","k","e","y">>, <<"t","e","n","n","i","s">>,
    <<"r","i","k","s","d","a","g">>, <<"k","o","m","m","u","n">>,
    <<"l","e","d","a","m","o","t">>, <<"m","i","n","i","s","t","e","r">>,
    <<"s","a","m","h","ae","l","l","e">>, <<"s","t","a","t">>,
    <<"j","ae","r","n","v","ae","g">>, <<"s","p","aa","r">>, <<"b","u","s","s">>,
    <<"s","t","o","r">>, <<"l","i","t","e","n">>, <<"n","y">>, <<"g","a","m","m","a","l">>,
    <<"u","n","g">>, <<"l","aa","n","g">>, <<"k","o","r","t">>, <<"b","r","e","d">>,
    <<"h","oe","g">>, <<"l","aa","g">>, <<"v","a","r","m">>, <<"k","a","l","l">>,
    <<"v","i","t">>, <<"s","v","a","r","t">>, <<"r","oe","d">>, <<"b","l","aa">>,
    <<"g","r","oe","n">>, <<"s","n","a","b","b">>, <<"s","e","n">>, <<"f","i","n">>,
    <<"r","e","n">>, <<"f","r","i">>, <<"l","e","k">>, <<"s","p","e","l">>,
    <<"s","k","r","i","v">>, <<"l","ae","s">>, <<"k","oe","r">>, <<"s","p","r","i","n","g">>,
    <<"t","ae","n","k">>, <<"s","o","v">>, <<"s","j","u","n","g">>, <<"f","l","y","t","t">>,
    <<"b","y","g","g">>, <<"s","t","ae","d">>, <<"l","ae","r">>, <<"s","ae","g">>,
    <<"a","r","m">>, <<"b","e","n">>, <<"f","i","n","g","e","r">>, <<"h","u","v","u","d">>,
    <<"m","a","g","e">>, <<"r","y","g","g">>, <<"t","a","n","d">>, <<"b","e","r","g">>,
    <<"b","l","a","d">>, <<"b","l","o","m","m","a">>, <<"e","l","d">>, <<"f","r","u","k","t">>,
    <<"g","r","e","n">>, <<"s","t","e","n">>, <<"t","r","ae","d">>,
    <<"f","oe","n","s","t","e","r">>, <<"k","oe","k">>, <<"t","r","a","p","p">>,
    <<"b","y","g","g","n","a","d">>, <<"v","aa","n","i","n","g">>, <<"d","a","t","a">>,
    <<"f","i","l">>, <<"k","o","d">>, <<"n","ae","t">>, <<"w","e","b","b">>,
    <<"s","e","r","v","e","r">>, <<"s","k","ae","r","m">>, <<"a","r","b","e","t","s">>,
    <<"e","f","t","e","r">>, <<"f","oe","r","e">>, <<"g","r","u","p","p">>,
    <<"h","a","l","v">>, <<"i","n","n","e">>, <<"l","a","n","d","s">>,
    <<"m","e","l","l","a","n">>, <<"m","i","t","t">>, <<"r","i","k","s">>, <<"s","a","m">>,
    <<"s","l","u","t">>, <<"s","t","a","t","s">>, <<"u","n","d","e","r">>, <<"u","t","e">>,
    <<"oe","v","e","r">> }

(***************************************************************************)
(* CompoundSplitter                                                        *)
(***************************************************************************)
\* mutant: the empty joiner is tried first
JoinersEmptyFirst == << <<>>, <<"s">>, <<"e">>, <<"o">>, <<"u">> >>

\* _JOINERS = ("s", "e", "o", "u", ""), in the order the search tries them
JOINERS == << <<"s">>, <<"e">>, <<"o">>, <<"u">>, <<>> >>

\* _load_default_wordlist: resource is None when the wordlist file does not
\* exist, else Some(the set of its lines)
LoadDefaultWordlist(resource) ==
    IF resource.some
    THEN { Lower(Strip(line)) :
             line \in { l \in resource.val : Strip(l) # <<>> /\ ~StartsWith(l, <<"#">>) } }
    ELSE BUILTIN_WORDS

\* __init__: the caller's set is kept as it is; without one the default
\* wordlist is loaded
Construct(wordlist, resource) ==
    IF wordlist.some THEN wordlist.val ELSE LoadDefaultWordlist(resource)

\* mutant: the scan starts one split point too low
FirstSplitPointOffByOne(word) == Len(word) - MinPartLen - 1

\* range(len(word) - self._min_part_len, ...): the first (longest) prefix length
FirstSplitPoint(word) == Len(word) - MinPartLen

\* mutant: the joiner letter stays at the front of the rest
RestKeepsJoiner(remainder, joiner) == remainder

\* remainder[len(joiner):], and the whole remainder for the empty joiner
Rest(remainder, joiner) == SubSeq(remainder, Len(joiner) + 1, Len(remainder))

\* mutant: the first candidate found is kept whatever comes later
BetterKeepsFirst(best, candidate) == IF best.some THEN best ELSE Some(candidate)

\* mutant: a candidate with as many parts replaces the best
BetterOrEqual(best, candidate) ==
    IF ~best.some \/ Len(candidate) <= Len(best.val) THEN Some(candidate) ELSE best

\* "if best is None or len(candidate) < len(best): best = candidate"
Better(best, candidate) ==
    IF ~best.some \/ Len(candidate) < Len(best.val) THEN Some(candidate) ELSE best

\* mutant: the prefix is put after the parts of the rest
ExtendAppends(prefix, sub) == sub \o <<prefix>>

\* "candidate = [prefix] + sub"
Extend(prefix, sub) == <<prefix>> \o sub

\* mutant: the depth bound cuts one level early
TooDeepOffByOne(depth) == depth >= MaxDepth

\* "if depth > 5: return None"
TooDeep(depth) == depth > MaxDepth

\* mutant: the loop is left with any candidate in hand
EarlyExitOnAny(best) == Truthy(best)

\* "if best and len(best) == 2: return best"
EarlyExit(best) == Truthy(best) /\ Len(best.val) = 2

\* mutant: the prefix is not looked up in the dictionary
NextSplitPointAnyPrefix(W, word, i) == IF i >= MinPartLen THEN i ELSE 0

\* "for i in range(...): prefix = word[:i]; if prefix not in self._words:
\* continue": the next split point at or below i whose prefix is a dictionary
\* word, and 0 when the loop runs out
NextSplitPoint(W, word, i) ==
    LET viable == { j \in MinPartLen..i : SubSeq(word, 1, j) \in W }
    IN  IF viable = {} THEN 0
        ELSE CHOOSE j \in viable : \A m \in viable : m <= j

\* "for joiner in self._JOINERS: ... if joiner: continue": the next joiner at
\* or after position k that is empty or starts the remainder, and
\* Len(JOINERS) + 1 when the loop runs out
NextJoiner(remainder, k) ==
    LET usable == { j \in k..Len(JOINERS) :
                      JOINERS[j] = <<>> \/ StartsWith(remainder, JOINERS[j]) }
    IN  IF usable = {} THEN Len(JOINERS) + 1
        ELSE CHOOSE j \in usable : \A m \in usable : j <= m

RECURSIVE TrySplit(_, _, _)
RECURSIVE ScanPrefixes(_, _, _, _, _)
RECURSIVE TryJoiners(_, _, _, _, _, _)

\* the joiner loop of _try_split for one dictionary prefix, from position k of
\* _JOINERS on
TryJoiners(W, prefix, remainder, depth, k, best) ==
    LET j == NextJoiner(remainder, k)
    IN  IF j > Len(JOINERS) THEN best
        ELSE LET rest == Rest(remainder, JOINERS[j])
             IN  IF rest = <<>>
                 THEN TryJoiners(W, prefix, remainder, depth, j + 1, best)
                 ELSE IF rest \in W
                 THEN TryJoiners(W, prefix, remainder, depth, j + 1,
                                 Better(best, <<prefix, rest>>))
                 ELSE LET sub == TrySplit(W, rest, depth + 1)
                      IN  IF Truthy(sub)
                          THEN TryJoiners(W, prefix, remainder, depth, j + 1,
                                          Better(best, Extend(prefix, sub.val)))
                          ELSE TryJoiners(W, prefix, remainder, depth, j + 1, best)

\* the split-point loop of _try_split, from prefix length from downward
ScanPrefixes(W, word, depth, from, best) ==
    LET i == NextSplitPoint(W, word, from)
    IN  IF i < MinPartLen THEN best
        ELSE LET prefix    == SubSeq(word, 1, i)
                 remainder == SubSeq(word, i + 1, Len(word))
                 found     == TryJoiners(W, prefix, remainder, depth, 1, best)
             IN  IF EarlyExit(found)
                 THEN found
                 ELSE ScanPrefixes(W, word, depth, i - 1, found)

\* _try_split(word, depth) against the dictionary W
TrySplit(W, word, depth) ==
    IF TooDeep(depth) THEN None
    ELSE IF Len(word) < MinPartLen * 2
    THEN IF word \in W THEN Some(<<word>>) ELSE None
    ELSE ScanPrefixes(W, word, depth, FirstSplitPoint(word), None)

\* CompoundSplit(word, parts, is_compound)
CompoundSplit(word, parts, is_compound) ==
    [word |-> word, parts |-> parts, is_compound |-> is_compound]

\* mutant: a one-element list counts as a compound
FoundCompoundOfOne(parts) == Truthy(parts) /\ Len(parts.val) >= 1

\* "if parts and len(parts) > 1"
FoundCompound(parts) == Truthy(parts) /\ Len(parts.val) > 1

\* the non-compound result of split
NotCompound(word) == CompoundSplit(word, <<word>>, FALSE)

\* mutant: split without its "if word else []"
SplitEmptyKeepsWord(W, word) ==
    IF word = <<>> \/ Len(word) < 2
    THEN CompoundSplit(word, <<word>>, FALSE)
    ELSE LET parts == TrySplit(W, Lower(word), 0)
         IN  IF FoundCompound(parts)
             THEN CompoundSplit(word, parts.val, TRUE)
             ELSE NotCompound(word)

\* split(word) against the dictionary W
Split(W, word) ==
    IF word = <<>> \/ Len(word) < 2
    THEN CompoundSplit(word, IF word # <<>> THEN <<word>> ELSE <<>>, FALSE)
    ELSE LET parts == TrySplit(W, Lower(word), 0)
         IN  IF FoundCompound(parts)
             THEN CompoundSplit(word, parts.val, TRUE)
             ELSE NotCompound(word)

\* is_valid_compound(word)
IsValidCompound(W, word) == Split(W, word).is_compound

(***************************************************************************)
(* The words and wordlists the model hands to the program.                 *)
(***************************************************************************)
w_sol == <<"s", "o", "l">>

w_stol == <<"s", "t", "o", "l">>

w_tol == <<"t", "o", "l">>

w_solstol == <<"s", "o", "l", "s", "t", "o", "l">>

w_barn == <<"b", "a", "r", "n">>

w_bok == <<"b", "o", "k">>

w_hund == <<"h", "u", "n", "d">>

w_sjuk == <<"s", "j", "u", "k">>

w_hus == <<"h", "u", "s">>

w_sjukhus == <<"s", "j", "u", "k", "h", "u", "s">>

w_byggnad == <<"b", "y", "g", "g", "n", "a", "d">>

w_husbyggnad == <<"h", "u", "s", "b", "y", "g", "g", "n", "a", "d">>

w_vagn == <<"v", "a", "g", "n">>

w_hjul == <<"h", "j", "u", "l">>

w_Sol_ == <<"S", "o", "l">>

w_barnbok == <<"b", "a", "r", "n", "b", "o", "k">>

w_sjukhusbyggnad == <<"s", "j", "u", "k", "h", "u", "s", "b", "y", "g", "g", "n", "a", "d">>

w_barnvagnshjul == <<"b", "a", "r", "n", "v", "a", "g", "n", "s", "h", "j", "u", "l">>

w_barnvagn == <<"b", "a", "r", "n", "v", "a", "g", "n">>

w_sjoefaagel == <<"s", "j", "oe", "f", "aa", "g", "e", "l">>

w_xyzxyz == <<"x", "y", "z", "x", "y", "z">>

w_SolStol == <<"S", "o", "l", "S", "t", "o", "l">>

w_Hund_ == <<"H", "u", "n", "d">>

w_bil == <<"b", "i", "l">>

w_park == <<"p", "a", "r", "k">>

w_husbilpark == <<"h", "u", "s", "b", "i", "l", "p", "a", "r", "k">>

w_sjukhusbilpark == <<"s", "j", "u", "k", "h", "u", "s", "b", "i", "l", "p", "a", "r", "k">>

\* the wordlist of tests/test_compound.py::test_custom_wordlist
WordlistTest == {w_sol, w_stol, w_solstol}

\* the dictionary of the concrete scenarios
WordlistScenario == {w_sol, w_stol, w_solstol, w_barn, w_bok, w_hund}

\* the two readings of sjukhusbyggnad
WordlistHospital == {w_sjuk, w_hus, w_sjukhus, w_byggnad, w_husbyggnad}

\* a caller's wordlist with a capitalised entry
WordlistMixed == {w_Sol_, w_stol}

\* a joiner-stripped and a whole remainder at the same prefix
WordlistTol == {w_sol, w_stol, w_tol}

\* three parts behind the longest prefix, two behind a shorter one
WordlistFewest == {w_sjuk, w_sjukhus, w_bil, w_park, w_husbilpark}

ConcreteWordlists ==
    {WordlistTest, WordlistScenario, WordlistHospital, WordlistMixed, WordlistTol,
     WordlistFewest}

\* the generic alphabet: a joiner letter and a letter that is no joiner
Letters == {"a", "s"}

\* every word over S of length lo..hi
WordsOver(S, lo, hi) == UNION { [1..n -> S] : n \in lo..hi }

\* every subset of S with at most n elements
RECURSIVE SubsetsUpTo(_, _)
SubsetsUpTo(S, n) ==
    IF n = 0 THEN {{}}
    ELSE LET P == SubsetsUpTo(S, n - 1)
         IN  P \cup { p \cup {x} : p \in P, x \in S }

UpperOf(c) == IF c \in LowerChars THEN ToUpper[c] ELSE c

\* the word with its first letter in upper case
Capitalize(word) ==
    IF word = <<>> THEN word ELSE <<UpperOf(Head(word))>> \o Tail(word)

\* the word in upper case
Upper(word) == [ k \in 1..Len(word) |-> UpperOf(word[k]) ]

Casings(word) == {word, Capitalize(word), Upper(word)}

\* generic dictionary entries: up to half the longest generic input
Pool == WordsOver(Letters, 1, MaxLen \div 2)

\* the entries short enough to be repeated, capitalised or written as a line
ShortPool == { w \in Pool : Len(w) <= MinPartLen }

\* entries a caller may pass: lower-case words, capitalised ones and the
\* empty string
CallerPool == Pool \cup { Capitalize(w) : w \in ShortPool } \cup {<<>>}

CallerWordlists == SubsetsUpTo(CallerPool, MaxDictSize) \cup ConcreteWordlists

\* lines of a wordlist resource: entries, entries in upper case, padded
\* entries, comment lines, blank lines
RawLines ==
    UNION { { w, Capitalize(w), <<" ">> \o w \o <<" ">>, <<"#">> \o w, <<" ", "#">> \o w }
            : w \in ShortPool }
      \cup { <<>>, <<" ">> }

ResourceFiles == SubsetsUpTo(RawLines, MaxDictSize)

\* the single joiner letters
JoinerLetters == { JOINERS[k] : k \in 1..Len(JOINERS) } \ {<<>>}

SampleRoots == {w_sol, w_stol, w_tol, w_barn, w_bok, w_hund, w_sjuk, w_hus, w_vagn, w_hjul}

\* the entries of W from which inputs are composed
Sample(W) == { w \in W : w \in CallerPool \/ w \in SampleRoots }

\* a + b and a + j + b for sampled entries a, b of W
Composed(W) ==
    { a \o j \o b : a \in Sample(W), b \in Sample(W), j \in JoinerLetters \cup {<<>>} }

RECURSIVE Repeat(_, _)
Repeat(word, n) == IF n = 0 THEN <<>> ELSE word \o Repeat(word, n - 1)

\* chains of one repeated two-letter entry of W
Chains(W) ==
    { Repeat(w, n) : w \in { x \in Sample(W) : Len(x) = 2 }, n \in 2..MaxChain }

ConcreteInputs ==
    { w_hund, w_Hund_, w_solstol, w_SolStol, w_barnbok, w_barnvagn, w_barnvagnshjul,
      w_sjukhusbyggnad, w_sjukhusbilpark, w_sjoefaagel, w_xyzxyz }

\* the words handed to split on a splitter whose dictionary is W
Inputs(W) ==
    UNION { Casings(w) : w \in WordsOver(Letters, 0, MaxLen) \cup Composed(W) \cup Chains(W) }
      \cup ConcreteInputs

(***************************************************************************)
(* The state machine: one splitter, its callers calling split.             *)
(***************************************************************************)
VARIABLES
    words,      \* self._words, the dictionary
    source,     \* how the dictionary was built: "caller", "resource", "builtin"
    pc,         \* "idle": no call in progress; "running": split is executing;
                \* "returned": split has returned
    result,     \* the CompoundSplit the last split call returned
    stack,      \* the call stack of a split call executed step by step
    threads,    \* the split calls of concurrent threads on the one splitter:
                \* for each thread its pc, its own call stack and its result
    checker,    \* a ConsistencyChecker: case_sensitive and _entries
    issues,     \* what the last check() returned
    added,      \* history: the (source, translation) pairs handed to add
    lexicon,    \* SwedishLexicon._dict
    found       \* the last search or reverse_lookup call and what it returned

vars == <<words, source, pc, result, stack,
          threads, checker, issues, added, lexicon, found>>

\* the state outside the splitter and its single call
elsewhere == <<threads, checker, issues, added, lexicon, found>>

NoResult == CompoundSplit(<<>>, <<>>, FALSE)

\* the threads that call split on the one splitter
Threads == 1..NumThreads

\* a thread outside split
IdleCall == [pc |-> "idle", stack |-> <<>>, result |-> NoResult]

\* no search or reverse_lookup call made yet
NoQuery == [op |-> "none", arg |-> <<>>, limit |-> 0, results |-> <<>>]

\* no splitter constructed
NoSplitter ==
    /\ words = {}
    /\ source = "none"
    /\ pc = "idle"
    /\ result = NoResult
    /\ stack = <<>>

\* no thread inside split
NoThreads == threads = [t \in Threads |-> IdleCall]

\* no ConsistencyChecker in use
NoChecker ==
    /\ checker = [case_sensitive |-> TRUE, entries |-> <<>>]
    /\ issues = None
    /\ added = {}

\* no SwedishLexicon in use
NoLexicon ==
    /\ lexicon = <<>>
    /\ found = NoQuery

\* CompoundSplitter(wordlist=...) and CompoundSplitter()
Init ==
    /\ \/ /\ source = "caller"
          /\ \E wordlist \in CallerWordlists : words = Construct(Some(wordlist), None)
       \/ /\ source = "resource"
          /\ \E file \in ResourceFiles : words = Construct(None, Some(file))
       \/ /\ source = "builtin"
          /\ words = Construct(None, None)
    /\ pc = "idle"
    /\ result = NoResult
    /\ stack = <<>>
    /\ NoThreads
    /\ NoChecker
    /\ NoLexicon

\* splitter.split(word), from call to return
SplitCall(word) ==
    /\ pc = "idle"
    /\ result' = Split(words, word)
    /\ pc' = "returned"
    /\ UNCHANGED <<words, source, stack>>
    /\ UNCHANGED elsewhere

\* the caller takes the result; the splitter is ready for the next call
Return ==
    /\ pc = "returned"
    /\ pc' = "idle"
    /\ result' = NoResult
    /\ UNCHANGED <<words, source, stack>>
    /\ UNCHANGED elsewhere

\* any caller, any word
Call ==
    /\ pc = "idle"
    /\ \E word \in Inputs(words) : SplitCall(word)

Next ==
    \/ Call
    \/ Return

Spec == Init /\ [][Next]_vars

(***************************************************************************)
(* The same call executed step by step: the bottom frame of the stack is   *)
(* split(word), the frames above it are the nested _try_split calls.  One  *)
(* step is one pass through a loop head of the source.                     *)
(***************************************************************************)
\* the frame of split(word), waiting for _try_split(word_lower)
SplitFrame(word) ==
    [fn |-> "split", word |-> word, depth |-> 0, at |-> "call",
     i |-> 0, k |-> 0, best |-> None]

\* a fresh frame of _try_split(word, depth)
TryFrame(word, depth) ==
    [fn |-> "_try_split", word |-> word, depth |-> depth, at |-> "enter",
     i |-> 0, k |-> 0, best |-> None]

\* mutant: the recursive call passes its own depth on
SubCallSameDepth(rest, depth) == TryFrame(rest, depth)

\* "self._try_split(rest, depth + 1)"
SubCall(rest, depth) == TryFrame(rest, depth + 1)

Top == stack[Len(stack)]

Caller == stack[Len(stack) - 1]

\* the stack with its top frame replaced
WithTop(frame) == [stack EXCEPT ![Len(stack)] = frame]

\* "return value" of the top _try_split frame: the frame is popped and its
\* caller goes on with the value, split by building its result, _try_split
\* by taking it as sub
ReturnValue(value) ==
    IF Caller.fn = "split"
    THEN /\ stack' = <<>>
         /\ pc' = "returned"
         /\ result' = IF FoundCompound(value)
                      THEN CompoundSplit(Caller.word, value.val, TRUE)
                      ELSE NotCompound(Caller.word)
    ELSE /\ stack' = [ n \in 1..(Len(stack) - 1) |->
                         IF n < Len(stack) - 1 THEN stack[n]
                         ELSE [Caller EXCEPT
                                 !.at = "joiner",
                                 !.k = @ + 1,
                                 !.best = IF Truthy(value)
                                          THEN Better(@, Extend(SubSeq(Caller.word, 1, Caller.i),
                                                                value.val))
                                          ELSE @] ]
         /\ UNCHANGED <<pc, result>>

\* split(word) is called: the guard for short words, else _try_split(word_lower)
Begin(word) ==
    /\ pc = "idle"
    /\ IF word = <<>> \/ Len(word) < 2
       THEN /\ result' = CompoundSplit(word, IF word # <<>> THEN <<word>> ELSE <<>>, FALSE)
            /\ pc' = "returned"
            /\ UNCHANGED stack
       ELSE /\ stack' = <<SplitFrame(word), TryFrame(Lower(word), 0)>>
            /\ pc' = "running"
            /\ UNCHANGED result
    /\ UNCHANGED <<words, source>>
    /\ UNCHANGED elsewhere

\* the head of _try_split: the depth bound and the base rule
Enter ==
    /\ pc = "running"
    /\ Top.at = "enter"
    /\ IF TooDeep(Top.depth)
       THEN ReturnValue(None)
       ELSE IF Len(Top.word) < MinPartLen * 2
       THEN ReturnValue(IF Top.word \in words THEN Some(<<Top.word>>) ELSE None)
       ELSE /\ stack' = WithTop([Top EXCEPT !.at = "scan", !.i = FirstSplitPoint(Top.word)])
            /\ UNCHANGED <<pc, result>>
    /\ UNCHANGED <<words, source>>
    /\ UNCHANGED elsewhere

\* the head of "for i in range(...)": the loop ends, skips a prefix that is
\* no dictionary word, or enters the joiner loop
Scan ==
    /\ pc = "running"
    /\ Top.at = "scan"
    /\ IF Top.i < MinPartLen
       THEN ReturnValue(Top.best)
       ELSE IF SubSeq(Top.word, 1, Top.i) \notin words
       THEN /\ stack' = WithTop([Top EXCEPT !.i = @ - 1])
            /\ UNCHANGED <<pc, result>>
       ELSE /\ stack' = WithTop([Top EXCEPT !.at = "joiner", !.k = 1])
            /\ UNCHANGED <<pc, result>>
    /\ UNCHANGED <<words, source>>
    /\ UNCHANGED elsewhere

\* the head of "for joiner in self._JOINERS": the loop ends (early exit or
\* next split point), skips a joiner, records a two-part candidate, or calls
\* _try_split on the rest
Joiner ==
    /\ pc = "running"
    /\ Top.at = "joiner"
    /\ LET prefix    == SubSeq(Top.word, 1, Top.i)
           remainder == SubSeq(Top.word, Top.i + 1, Len(Top.word))
       IN  IF Top.k > Len(JOINERS)
           THEN IF EarlyExit(Top.best)
                THEN ReturnValue(Top.best)
                ELSE /\ stack' = WithTop([Top EXCEPT !.at = "scan", !.i = @ - 1])
                     /\ UNCHANGED <<pc, result>>
           ELSE LET joiner == JOINERS[Top.k]
                    rest   == Rest(remainder, joiner)
                IN  IF (joiner # <<>> /\ ~StartsWith(remainder, joiner)) \/ rest = <<>>
                    THEN /\ stack' = WithTop([Top EXCEPT !.k = @ + 1])
                         /\ UNCHANGED <<pc, result>>
                    ELSE IF rest \in words
                    THEN /\ stack' = WithTop([Top EXCEPT
                                                !.k = @ + 1,
                                                !.best = Better(@, <<prefix, rest>>)])
                         /\ UNCHANGED <<pc, result>>
                    ELSE /\ stack' = Append(WithTop([Top EXCEPT !.at = "sub"]),
                                            SubCall(rest, Top.depth))
                         /\ UNCHANGED <<pc, result>>
    /\ UNCHANGED <<words, source>>
    /\ UNCHANGED elsewhere

\* entries of the wordlists of the step-by-step runs
RunPool == ShortPool \cup { w \in Pool : \A k \in 1..Len(w) : w[k] = w[1] }

RunWordlists == SubsetsUpTo(RunPool, MaxDictSize) \cup ConcreteWordlists

InitRun ==
    /\ source = "caller"
    /\ \E wordlist \in RunWordlists : words = Construct(Some(wordlist), None)
    /\ pc = "idle"
    /\ result = NoResult
    /\ stack = <<>>
    /\ NoThreads
    /\ NoChecker
    /\ NoLexicon

\* the words of the step-by-step runs
RunInputs(W) == Composed(W) \cup Chains(W) \cup ConcreteInputs

BeginAny ==
    /\ pc = "idle"
    /\ \E word \in RunInputs(words) : Begin(word)

NextRun ==
    \/ BeginAny
    \/ Enter
    \/ Scan
    \/ Joiner
    \/ Return

\* a call that has begun keeps executing: the interpreter does not stop
\* inside split
SpecRun == InitRun /\ [][NextRun]_vars /\ WF_vars(Enter \/ Scan \/ Joiner)

(***************************************************************************)
(* Vocabulary of the properties.                                           *)
(***************************************************************************)
Returned == pc = "returned"

\* the lowercased input of the call that returned
lowered == Lower(result.word)

\* the largest number of parts the depth bound lets a result have
MaxParts == MaxDepth + 2

JoinerSet == { JOINERS[k] : k \in 1..Len(JOINERS) }

\* w reads as exactly n dictionary words, each boundary bridged directly or
\* by one joiner letter, every split prefix and every remainder before its
\* joiner at least MinPartLen characters long
RECURSIVE Decomposable(_, _, _)
Decomposable(W, w, n) ==
    IF n = 1 THEN w # <<>> /\ w \in W
    ELSE \E i \in MinPartLen..(Len(w) - MinPartLen) :
            /\ SubSeq(w, 1, i) \in W
            /\ \E j \in JoinerSet :
                  /\ StartsWith(SubSeq(w, i + 1, Len(w)), j)
                  /\ Decomposable(W, SubSeq(w, i + 1 + Len(j), Len(w)), n - 1)

\* w reads as exactly n dictionary words the first of which is w[1..i]
DecomposableFrom(W, w, i, n) ==
    /\ i \in MinPartLen..(Len(w) - MinPartLen)
    /\ SubSeq(w, 1, i) \in W
    /\ \E j \in JoinerSet :
          /\ StartsWith(SubSeq(w, i + 1, Len(w)), j)
          /\ Decomposable(W, SubSeq(w, i + 1 + Len(j), Len(w)), n - 1)

\* some decomposition within the depth bound
HasDecomposition(W, w) == \E n \in 2..MaxParts : Decomposable(W, w, n)

\* the two-part readings <<x, y>> of w: x + y or x + joiner + y
TwoPartReadings(W, w) ==
    { <<SubSeq(w, 1, i), SubSeq(w, i + 1 + Len(j), Len(w))>> :
        <<i, j>> \in { p \in (MinPartLen..(Len(w) - MinPartLen)) \X JoinerSet :
                         /\ SubSeq(w, 1, p[1]) \in W
                         /\ StartsWith(SubSeq(w, p[1] + 1, Len(w)), p[2])
                         /\ SubSeq(w, p[1] + 1 + Len(p[2]), Len(w)) \in W
                         /\ SubSeq(w, p[1] + 1 + Len(p[2]), Len(w)) # <<>> } }

\* parts, joined by one joiner (possibly empty) at each boundary, spell w
RECURSIVE Reconstructs(_, _)
Reconstructs(parts, w) ==
    IF parts = <<>> THEN FALSE
    ELSE IF Len(parts) = 1 THEN w = parts[1]
    ELSE /\ StartsWith(w, parts[1])
         /\ \E j \in JoinerSet :
               /\ StartsWith(SubSeq(w, Len(parts[1]) + 1, Len(w)), j)
               /\ Reconstructs(Tail(parts), SubSeq(w, Len(parts[1]) + Len(j) + 1, Len(w)))

\* the ways to cut w in two: <<a, b>> with w = a + b
Cuts(w) == { <<SubSeq(w, 1, i), SubSeq(w, i + 1, Len(w))>> : i \in 0..Len(w) }

\* the ways to cut w in two around a joiner letter: <<a, b>> with w = a + j + b
JoinerCuts(w) ==
    { <<SubSeq(w, 1, i - 1), SubSeq(w, i + 1, Len(w))>> :
        i \in { k \in 1..Len(w) : <<w[k]>> \in JoinerLetters } }

(***************************************************************************)
(* C1                                                                      *)
(***************************************************************************)
\* C1 as stated: split of a (non-empty) dictionary member w returns
\* is_compound = false and parts = [w], whatever else the dictionary holds.
C1_MemberIsNeverCompound ==
    Returned /\ result.word # <<>> /\ result.word \in words
        => ~result.is_compound /\ result.parts = <<result.word>>

\* C1 amended: split of a non-empty dictionary member w returns
\* is_compound = false and parts = [w] when w has no decomposition the search
\* reaches, and is_compound = true when it has one.
C1_MemberWithoutDecomposition ==
    Returned /\ result.word # <<>> /\ result.word \in words
        => IF HasDecomposition(words, lowered)
           THEN result.is_compound
           ELSE ~result.is_compound /\ result.parts = <<result.word>>

\* a dictionary member long enough to be searched comes back as not compound
C1_Witness ==
    /\ Returned
    /\ result.word \in words
    /\ Len(result.word) >= 2 * MinPartLen
    /\ ~HasDecomposition(words, lowered)
    /\ ~result.is_compound
    /\ result.parts = <<result.word>>

(***************************************************************************)
(* C2                                                                      *)
(***************************************************************************)
\* a + b also reads as x + joiner letter + y for dictionary words x, y
JoinerAmbiguity(W, a, b) ==
    \E c \in JoinerCuts(a \o b) : c[1] \in W /\ c[2] \in W

\* C2 as stated: for dictionary members a, b (non-empty) without joiner
\* ambiguity, split(a + b) returns is_compound = true and parts = [a, b].
C2_ConcatenationSplits ==
    Returned =>
        \A c \in Cuts(lowered) :
            (/\ c[1] \in words /\ c[1] # <<>>
             /\ c[2] \in words /\ c[2] # <<>>
             /\ ~JoinerAmbiguity(words, c[1], c[2]))
            => result.is_compound /\ result.parts = c

\* C2 amended: for dictionary members a, b of at least MinPartLen characters
\* each, when a + b has no other two-part reading (x + y or x + joiner + y)
\* whose first part is at least as long as a, split of a word that lowercases
\* to a + b returns is_compound = true and parts = [a, b]; so it does for
\* solstol with the wordlist {sol, stol, solstol} and for barnbok with the
\* built-in vocabulary.
C2_UnambiguousConcatenationSplits ==
    Returned =>
        /\ \A c \in Cuts(lowered) :
              (/\ c[1] \in words /\ Len(c[1]) >= MinPartLen
               /\ c[2] \in words /\ Len(c[2]) >= MinPartLen
               /\ \A r \in TwoPartReadings(words, lowered) :
                     Len(r[1]) >= Len(c[1]) => r = c)
              => result.is_compound /\ result.parts = c
        /\ words = WordlistTest /\ lowered = w_solstol
              => result.is_compound /\ result.parts = <<w_sol, w_stol>>
        /\ source = "builtin" /\ lowered = w_barnbok
              => result.is_compound /\ result.parts = <<w_barn, w_bok>>

\* solstol, itself an entry of the wordlist, is split into sol + stol
C2_Witness ==
    /\ Returned
    /\ words = WordlistTest
    /\ result.word = w_solstol
    /\ result.is_compound
    /\ result.parts = <<w_sol, w_stol>>

(***************************************************************************)
(* C3                                                                      *)
(***************************************************************************)
\* C3 as stated: for dictionary members a, b (non-empty) and a joiner letter
\* j, split(a + j + b) returns is_compound = true and parts = [a, b].
C3_JoinerConsumed ==
    Returned =>
        \A c \in JoinerCuts(lowered) :
            (/\ c[1] \in words /\ c[1] # <<>>
             /\ c[2] \in words /\ c[2] # <<>>)
            => result.is_compound /\ result.parts = c

\* C3 amended: for dictionary members a of at least MinPartLen characters and
\* b non-empty and a joiner letter j, when no two-part reading of a + j + b
\* has a first part longer than a, split of a word that lowercases to
\* a + j + b returns is_compound = true and parts = [a, b].
C3_JoinerConsumedAtLongestPrefix ==
    Returned =>
        \A c \in JoinerCuts(lowered) :
            (/\ c[1] \in words /\ Len(c[1]) >= MinPartLen
             /\ c[2] \in words /\ c[2] # <<>>
             /\ \A r \in TwoPartReadings(words, lowered) : Len(r[1]) <= Len(c[1]))
            => result.is_compound /\ result.parts = c

\* a two-part result whose parts are separated by a joiner letter other than
\* s in the input
C3_Witness ==
    /\ Returned
    /\ result.is_compound
    /\ Len(result.parts) = 2
    /\ \E j \in JoinerLetters \ {<<"s">>} :
          lowered = result.parts[1] \o j \o result.parts[2]

(***************************************************************************)
(* C4                                                                      *)
(***************************************************************************)
\* C4: a compound result has at least 2 parts, each a member of the
\* dictionary, and is_compound is true exactly when parts has at least 2
\* elements.
C4_CompoundPartsAreWords ==
    Returned =>
        /\ result.is_compound =>
              /\ Len(result.parts) >= 2
              /\ \A k \in 1..Len(result.parts) : result.parts[k] \in words
        /\ result.is_compound <=> Len(result.parts) >= 2

\* a compound of three parts
C4_Witness ==
    /\ Returned
    /\ result.is_compound
    /\ Len(result.parts) = 3

(***************************************************************************)
(* C5                                                                      *)
(***************************************************************************)
\* C5 as stated: a non-empty word for which no decomposition is found comes
\* back with is_compound = false and parts = [the lowercased word].
C5_PartsHoldLoweredWord ==
    Returned /\ result.word # <<>> /\ ~FoundCompound(TrySplit(words, lowered, 0))
        => ~result.is_compound /\ result.parts = <<lowered>>

(***************************************************************************)
(* C6                                                                      *)
(***************************************************************************)
\* C6: the parts of a compound result, joined by one joiner out of
\* {"", s, e, o, u} at each boundary, spell the lowercased input exactly.
C6_Reconstruction ==
    Returned /\ result.is_compound => Reconstructs(result.parts, lowered)

\* barnvagnshjul: three parts, the s between vagn and hjul consumed
C6_Witness ==
    /\ Returned
    /\ result.word = w_barnvagnshjul
    /\ result.is_compound
    /\ result.parts = <<w_barn, w_vagn, w_hjul>>

(***************************************************************************)
(* C7                                                                      *)
(***************************************************************************)
\* C7: a compound result of n parts is a decomposition the search reaches,
\* no such decomposition has fewer than n parts, and a word that has such a
\* decomposition is reported as a compound.
C7_FewestParts ==
    Returned =>
        /\ result.is_compound =>
              /\ Decomposable(words, lowered, Len(result.parts))
              /\ \A n \in 2..(Len(result.parts) - 1) : ~Decomposable(words, lowered, n)
        /\ HasDecomposition(words, lowered) => result.is_compound

\* a longer dictionary prefix starts a three-part decomposition, a shorter
\* one a two-part decomposition: the two parts come back
C7_Witness ==
    /\ Returned
    /\ result.is_compound
    /\ Len(result.parts) = 2
    /\ \E i \in (Len(result.parts[1]) + 1)..Len(lowered) :
          DecomposableFrom(words, lowered, i, 3)

(***************************************************************************)
(* C8                                                                      *)
(***************************************************************************)
\* C8: among the decompositions with the fewest parts the result has the
\* longest first part; with sjuk, hus, sjukhus, byggnad and husbyggnad in
\* the dictionary sjukhusbyggnad comes back as sjukhus + byggnad.
C8_LongestFirstPart ==
    Returned /\ result.is_compound =>
        /\ DecomposableFrom(words, lowered, Len(result.parts[1]), Len(result.parts))
        /\ \A i \in (Len(result.parts[1]) + 1)..Len(lowered) :
              ~DecomposableFrom(words, lowered, i, Len(result.parts))
        /\ WordlistHospital \subseteq words /\ lowered = w_sjukhusbyggnad
              => result.parts = <<w_sjukhus, w_byggnad>>

\* sjukhusbyggnad has the two-part readings sjukhus + byggnad and
\* sjuk + husbyggnad; the first comes back
C8_Witness ==
    /\ Returned
    /\ words = WordlistHospital
    /\ lowered = w_sjukhusbyggnad
    /\ <<w_sjuk, w_husbyggnad>> \in TwoPartReadings(words, lowered)
    /\ result.parts = <<w_sjukhus, w_byggnad>>

(***************************************************************************)
(* C9                                                                      *)
(***************************************************************************)
\* C9 as stated: the entries are lowercased when the splitter is built, on
\* both construction paths, so every call matches as it would against the
\* lowercased entries.
C9_EntriesLowercased ==
    /\ \A e \in words : e = Lower(e)
    /\ Returned => result = Split({ Lower(e) : e \in words }, result.word)

(***************************************************************************)
(* C10                                                                     *)
(***************************************************************************)
\* the step-by-step run returns what split returns
RunAgreesWithSplit == Returned => result = Split(words, result.word)

\* every nested _try_split call works on a strictly shorter string than its
\* caller's, at depth one greater, and no call is deeper than the bound + 1
CallsShrink ==
    /\ Len(stack) <= MaxDepth + 3
    /\ \A n \in 2..Len(stack) :
          /\ stack[n].fn = "_try_split"
          /\ stack[n].depth = n - 2
          /\ stack[n].depth <= MaxDepth + 1
          /\ n > 2 => /\ Len(stack[n].word) < Len(stack[n - 1].word)
                      /\ stack[n].depth = stack[n - 1].depth + 1

\* a word all of whose decompositions have more parts than the depth bound
\* allows comes back as not compound
DegradesBeyondBound ==
    Returned /\ ~HasDecomposition(words, lowered) => ~result.is_compound

\* C10: split terminates; each recursive _try_split call is made on a
\* strictly shorter string at depth one greater; a chain of more morphemes
\* than the depth bound allows comes back as not compound.
C10_Terminates ==
    /\ [](CallsShrink /\ DegradesBeyondBound)
    /\ (pc = "running") ~> Returned

\* a chain of more morphemes than the bound allows has run through the
\* deepest call and come back as not compound
C10_Witness ==
    /\ Returned
    /\ \E n \in (MaxParts + 1)..MaxChain : Decomposable(words, lowered, n)
    /\ ~HasDecomposition(words, lowered)
    /\ ~result.is_compound

\* a call at the depth the bound cuts off
C10_DeepestCall ==
    /\ pc = "running"
    /\ Top.depth = MaxDepth + 1

(***************************************************************************)
(* C11                                                                     *)
(***************************************************************************)
\* no entry of W occurs anywhere inside w
NoMemberInside(W, w) ==
    \A i \in 1..Len(w) : \A j \in i..Len(w) : SubSeq(w, i, j) \notin W

\* a CompoundSplit value: the three fields, a flag, and a list of non-empty
\* strings as parts
IsCompoundSplit(r) ==
    /\ DOMAIN r = {"word", "parts", "is_compound"}
    /\ r.is_compound \in BOOLEAN
    /\ DOMAIN r.parts = 1..Len(r.parts)
    /\ \A k \in 1..Len(r.parts) : r.parts[k] # <<>>

\* C11: every call of split returns a CompoundSplit value; the empty string
\* comes back with no parts and not compound; a word inside which no
\* dictionary entry occurs comes back whole and not compound.
C11_NoErrorOutcome ==
    Returned =>
        /\ IsCompoundSplit(result)
        /\ result.word = <<>> => result.parts = <<>> /\ ~result.is_compound
        /\ result.word # <<>> /\ NoMemberInside(words, lowered) =>
              result.parts = <<result.word>> /\ ~result.is_compound

\* 'xyzxyz' has come back whole from the built-in dictionary
C11_Witness ==
    /\ Returned
    /\ source = "builtin"
    /\ result.word = w_xyzxyz
    /\ NoMemberInside(words, lowered)
    /\ result.parts = <<w_xyzxyz>>

\* the empty string has come back with no parts
C11_WitnessEmpty ==
    /\ Returned
    /\ result.word = <<>>
    /\ result.parts = <<>>

(***************************************************************************)
(* C17                                                                     *)
(***************************************************************************)
\* every reading of w as a list of dictionary words, each boundary bridged
\* directly or by one joiner letter, every split prefix and every remainder
\* before its joiner at least MinPartLen characters long
RECURSIVE Decompositions(_, _)
Decompositions(W, w) ==
    (IF w # <<>> /\ w \in W THEN {<<w>>} ELSE {})
    \cup UNION { { <<SubSeq(w, 1, c[1])>> \o d :
                     d \in Decompositions(W, SubSeq(w, c[1] + 1 + Len(c[2]), Len(w))) } :
                 c \in { p \in (MinPartLen..(Len(w) - MinPartLen)) \X JoinerSet :
                           /\ SubSeq(w, 1, p[1]) \in W
                           /\ StartsWith(SubSeq(w, p[1] + 1, Len(w)), p[2]) } }

\* the readings of w as a compound: two or more parts
CompoundReadings(W, w) == { d \in Decompositions(W, w) : Len(d) > 1 }

\* C17: _try_split at depth greater than 5 returns no candidate, so a compound
\* result has at most 7 parts; a word with a single reading, of at most 7
\* parts, comes back split into those parts; a word all of whose readings
\* have 8 or more parts comes back as not compound.
C17_DepthBound ==
    Returned =>
        LET readings == CompoundReadings(words, lowered)
        IN  /\ result.is_compound => Len(result.parts) <= MaxDepth + 2
            /\ \A d \in readings :
                  readings = {d} /\ Len(d) <= MaxDepth + 2 =>
                      result.is_compound /\ result.parts = d
            /\ (\A d \in readings : Len(d) >= MaxDepth + 3) => ~result.is_compound

\* a chain of seven morphemes with a single reading has come back in seven
\* parts
C17_Witness ==
    /\ Returned
    /\ Len(result.parts) = MaxDepth + 2
    /\ CompoundReadings(words, lowered) = {result.parts}
    /\ \E m \in words : lowered = Repeat(m, MaxDepth + 2)

\* a chain with readings, all of eight or more parts, has come back whole
C17_WitnessBeyond ==
    /\ Returned
    /\ CompoundReadings(words, lowered) # {}
    /\ \A d \in CompoundReadings(words, lowered) : Len(d) >= MaxDepth + 3
    /\ ~result.is_compound

(***************************************************************************)
(* C18                                                                     *)
(***************************************************************************)
\* no _try_split call looks for split points in a string of fewer than 4
\* characters
NeverSplitShort ==
    \A n \in 2..Len(stack) :
        stack[n].at # "enter" => Len(stack[n].word) >= 4

\* split of a word of fewer than 4 characters comes back whole
ShortInputNotCompound ==
    Returned /\ Len(result.word) < 4 =>
        /\ ~result.is_compound
        /\ result.parts = IF result.word = <<>> THEN <<>> ELSE <<result.word>>

\* a _try_split call on a string of fewer than 4 characters returns at once;
\* when the string is no dictionary word it hands no candidate to its caller
ShortCallReturns ==
    (pc = "running" /\ Top.at = "enter" /\ ~TooDeep(Top.depth) /\ Len(Top.word) < 4) =>
        /\ Len(stack') < Len(stack)
        /\ Top.word \notin words =>
              IF Len(stack) > 2
              THEN stack'[Len(stack) - 1].best = Caller.best
              ELSE result' = NotCompound(Caller.word)

\* C18: a string of fewer than 4 characters is never split: _try_split
\* accepts it whole when it is a dictionary word and fails otherwise, so
\* split of a word of fewer than 4 characters is never a compound.
C18_BaseRule ==
    /\ [](NeverSplitShort /\ ShortInputNotCompound)
    /\ [][ShortCallReturns]_vars

\* a three-letter word that is two dictionary entries side by side has come
\* back whole
C18_Witness ==
    /\ Returned
    /\ Len(result.word) = 3
    /\ \E c \in Cuts(lowered) : c[1] \in words /\ c[2] \in words
    /\ ~result.is_compound

\* a nested call on a string of fewer than 4 characters that is no
\* dictionary word
C18_WitnessNested ==
    /\ pc = "running"
    /\ Len(stack) > 2
    /\ Top.at = "enter"
    /\ Len(Top.word) < 4
    /\ Top.word \notin words

(***************************************************************************)
(* C19                                                                     *)
(***************************************************************************)
\* C19 as stated: every part of a compound result has at least 2 characters,
\* a part left after a joiner letter was stripped included, even when the
\* dictionary holds one-character entries.
C19_PartsAtLeastMinLen ==
    Returned /\ result.is_compound =>
        \A k \in 1..Len(result.parts) : Len(result.parts[k]) >= MinPartLen

(***************************************************************************)
(* C20                                                                     *)
(***************************************************************************)
\* what follows the first part of a two-part result in the lowercased word
RemainderOfResult == SubSeq(lowered, Len(result.parts[1]) + 1, Len(lowered))

\* C20: at one prefix the joiner-stripped remainder is tried before the whole
\* remainder and a later candidate of as many parts does not replace it: when
\* both are dictionary words the two-part result ends in the joiner-stripped
\* one (dictionary {sol, stol, tol}: 'solstol' gives [sol, tol]).
C20_JoinerStrippedWins ==
    /\ Returned /\ result.is_compound /\ Len(result.parts) = 2 =>
          \A j \in JoinerLetters :
              (/\ StartsWith(RemainderOfResult, j)
               /\ Rest(RemainderOfResult, j) # <<>>
               /\ Rest(RemainderOfResult, j) \in words)
              => result.parts[2] = Rest(RemainderOfResult, j)
    /\ Returned /\ words = WordlistTol /\ lowered = w_solstol =>
          result.parts = <<w_sol, w_tol>>

\* 'solstol' has come back as [sol, tol] although stol is a dictionary word
C20_Witness ==
    /\ Returned
    /\ words = WordlistTol
    /\ lowered = w_solstol
    /\ RemainderOfResult = w_stol
    /\ w_stol \in words
    /\ result.parts = <<w_sol, w_tol>>

(***************************************************************************)
(* C14: the splitter and the set objects it shares.  self._words is the    *)
(* caller's set object when a wordlist was passed, the module-level        *)
(* _BUILTIN_WORDS object when the fallback was taken, and a set of its own *)
(* when the resource file was read.                                        *)
(***************************************************************************)
\* the entries added to or discarded from a set after construction
AliasPool == {w_stol, w_bok}

\* set.add(e) when e is absent, set.discard(e) when it is present
Changed(set, e) == IF e \in set THEN set \ {e} ELSE set \cup {e}

\* the splitters whose sets are changed after construction
InitAlias ==
    /\ \/ /\ source = "caller"
          /\ \E wordlist \in ConcreteWordlists : words = Construct(Some(wordlist), None)
       \/ /\ source = "resource"
          /\ \E file \in { f \in ResourceFiles : f # {} } : words = Construct(None, Some(file))
       \/ /\ source = "builtin"
          /\ words = Construct(None, None)
    /\ pc = "idle"
    /\ result = NoResult
    /\ stack = <<>>
    /\ NoThreads
    /\ NoChecker
    /\ NoLexicon

\* the caller changes the set object it passed as wordlist: self._words is
\* that object
CallerChangesWordlist(e) ==
    /\ source = "caller"
    /\ words' = Changed(words, e)
    /\ UNCHANGED <<source, pc, result, stack>>
    /\ UNCHANGED elsewhere

\* a module user or another splitter changes _BUILTIN_WORDS: self._words is
\* that object when the fallback was taken
ModuleChangesBuiltin(e) ==
    /\ source = "builtin"
    /\ words' = Changed(words, e)
    /\ UNCHANGED <<source, pc, result, stack>>
    /\ UNCHANGED elsewhere

ChangeWordlist == \E e \in AliasPool : CallerChangesWordlist(e)

ChangeBuiltin == \E e \in AliasPool : ModuleChangesBuiltin(e)

NextAlias == Call \/ Return \/ ChangeWordlist \/ ChangeBuiltin

SpecAlias == InitAlias /\ [][NextAlias]_vars

\* C14 as stated: nothing done after construction changes the set of words
\* the splitter matches against.
C14_DictionaryImmutable == [][words' = words]_vars

(***************************************************************************)
(* C13: split called by several threads on one splitter.  Every call has   *)
(* its own frames (word, depth, i, joiner index, best); the threads share  *)
(* self._words.  One step of one thread is atomic; the steps of the        *)
(* threads interleave in any order.                                        *)
(***************************************************************************)
TopOf(stk) == stk[Len(stk)]

CallerOf(stk) == stk[Len(stk) - 1]

\* stk with its top frame replaced
Replaced(stk, frame) == [stk EXCEPT ![Len(stk)] = frame]

\* the call c goes on with the stack stk
Going(c, stk) == [c EXCEPT !.stack = stk]

\* the call c after "return value" of its top _try_split frame
Returning(c, value) ==
    LET stk == c.stack
    IN  IF CallerOf(stk).fn = "split"
        THEN [pc     |-> "returned",
              stack  |-> <<>>,
              result |-> IF FoundCompound(value)
                         THEN CompoundSplit(CallerOf(stk).word, value.val, TRUE)
                         ELSE NotCompound(CallerOf(stk).word)]
        ELSE Going(c, [ n \in 1..(Len(stk) - 1) |->
                          IF n < Len(stk) - 1 THEN stk[n]
                          ELSE [CallerOf(stk) EXCEPT
                                  !.at = "joiner",
                                  !.k = @ + 1,
                                  !.best = IF Truthy(value)
                                           THEN Better(@, Extend(SubSeq(CallerOf(stk).word, 1,
                                                                        CallerOf(stk).i),
                                                                 value.val))
                                           ELSE @] ])

\* the call after split(word) is entered
Begun(word) ==
    IF word = <<>> \/ Len(word) < 2
    THEN [pc     |-> "returned",
          stack  |-> <<>>,
          result |-> CompoundSplit(word, IF word # <<>> THEN <<word>> ELSE <<>>, FALSE)]
    ELSE [pc     |-> "running",
          stack  |-> <<SplitFrame(word), TryFrame(Lower(word), 0)>>,
          result |-> NoResult]

\* the call c after the head of _try_split
Entered(W, c) ==
    LET top == TopOf(c.stack)
    IN  IF TooDeep(top.depth)
        THEN Returning(c, None)
        ELSE IF Len(top.word) < MinPartLen * 2
        THEN Returning(c, IF top.word \in W THEN Some(<<top.word>>) ELSE None)
        ELSE Going(c, Replaced(c.stack,
                               [top EXCEPT !.at = "scan", !.i = FirstSplitPoint(top.word)]))

\* the call c after the head of "for i in range(...)"
Scanned(W, c) ==
    LET top == TopOf(c.stack)
    IN  IF top.i < MinPartLen
        THEN Returning(c, top.best)
        ELSE IF SubSeq(top.word, 1, top.i) \notin W
        THEN Going(c, Replaced(c.stack, [top EXCEPT !.i = @ - 1]))
        ELSE Going(c, Replaced(c.stack, [top EXCEPT !.at = "joiner", !.k = 1]))

\* the call c after the head of "for joiner in self._JOINERS"
Joined(W, c) ==
    LET top       == TopOf(c.stack)
        prefix    == SubSeq(top.word, 1, top.i)
        remainder == SubSeq(top.word, top.i + 1, Len(top.word))
    IN  IF top.k > Len(JOINERS)
        THEN IF EarlyExit(top.best)
             THEN Returning(c, top.best)
             ELSE Going(c, Replaced(c.stack, [top EXCEPT !.at = "scan", !.i = @ - 1]))
        ELSE LET joiner == JOINERS[top.k]
                 rest   == Rest(remainder, joiner)
             IN  IF (joiner # <<>> /\ ~StartsWith(remainder, joiner)) \/ rest = <<>>
                 THEN Going(c, Replaced(c.stack, [top EXCEPT !.k = @ + 1]))
                 ELSE IF rest \in W
                 THEN Going(c, Replaced(c.stack,
                                        [top EXCEPT !.k = @ + 1,
                                                    !.best = Better(@, <<prefix, rest>>)]))
                 ELSE Going(c, Append(Replaced(c.stack, [top EXCEPT !.at = "sub"]),
                                      SubCall(rest, top.depth)))

\* mutant: split adds the compounds it finds to the dictionary
WordsLearned(W, c) ==
    IF c.pc = "returned" /\ c.result.is_compound
    THEN W \cup {Lower(c.result.word)}
    ELSE W

\* self._words after a step that leaves the call as c: split and _try_split
\* assign no field of the splitter
WordsAfterStep(W, c) == W

\* thread t takes the step that leaves its call as c
ThreadStep(t, c) ==
    /\ threads' = [threads EXCEPT ![t] = c]
    /\ words' = WordsAfterStep(words, c)
    /\ UNCHANGED <<source, pc, result, stack>>
    /\ UNCHANGED <<checker, issues, added, lexicon, found>>

\* the dictionaries and the words of the concurrent calls
ConcWordlists == {WordlistTest, WordlistTol, WordlistMixed, WordlistScenario, WordlistFewest}

ConcInputs == {w_solstol, w_SolStol, w_barnvagnshjul, w_sjukhusbilpark, <<>>}

InitConc ==
    /\ source = "caller"
    /\ \E wordlist \in ConcWordlists : words = Construct(Some(wordlist), None)
    /\ pc = "idle"
    /\ result = NoResult
    /\ stack = <<>>
    /\ NoThreads
    /\ NoChecker
    /\ NoLexicon

\* thread t calls splitter.split(word)
ThreadBegin(t, word) ==
    /\ threads[t].pc = "idle"
    /\ ThreadStep(t, Begun(word))

ThreadEnter(t) ==
    /\ threads[t].pc = "running"
    /\ TopOf(threads[t].stack).at = "enter"
    /\ ThreadStep(t, Entered(words, threads[t]))

ThreadScan(t) ==
    /\ threads[t].pc = "running"
    /\ TopOf(threads[t].stack).at = "scan"
    /\ ThreadStep(t, Scanned(words, threads[t]))

ThreadJoiner(t) ==
    /\ threads[t].pc = "running"
    /\ TopOf(threads[t].stack).at = "joiner"
    /\ ThreadStep(t, Joined(words, threads[t]))

\* thread t takes its result and is ready for its next call
ThreadReturn(t) ==
    /\ threads[t].pc = "returned"
    /\ threads' = [threads EXCEPT ![t] = IdleCall]
    /\ UNCHANGED <<words, source, pc, result, stack>>
    /\ UNCHANGED <<checker, issues, added, lexicon, found>>

BeginConc == \E t \in Threads : \E word \in ConcInputs : ThreadBegin(t, word)

EnterConc == \E t \in Threads : ThreadEnter(t)

ScanConc == \E t \in Threads : ThreadScan(t)

JoinerConc == \E t \in Threads : ThreadJoiner(t)

ReturnConc == \E t \in Threads : ThreadReturn(t)

NextConc == BeginConc \/ EnterConc \/ ScanConc \/ JoinerConc \/ ReturnConc

SpecConc == InitConc /\ [][NextConc]_vars

\* every returned call holds the result split gives for its word when run
\* alone against the dictionary
AgreesWithCallAlone ==
    \A t \in Threads :
        threads[t].pc = "returned" =>
            threads[t].result = Split(words, threads[t].result.word)

\* a step leaves the splitter's fields as they are
SplitterUntouched == words' = words /\ source' = source

\* a step changes the frames of one call only
OtherCallsUntouched ==
    \A t \in Threads :
        threads'[t] # threads[t] =>
            \A u \in Threads \ {t} : threads'[u] = threads[u]

\* C13: under every interleaving of the steps of concurrent split calls on
\* one splitter, no step changes the dictionary or another call's search
\* state, and each call returns the result it returns when run alone.
C13_ConcurrentCallsAgree ==
    /\ []AgreesWithCallAlone
    /\ [][SplitterUntouched /\ OtherCallsUntouched]_vars

\* one call has returned a compound while another call, on another word, is
\* in the middle of its joiner loop with a candidate in hand
C13_Witness ==
    \E t \in Threads : \E u \in Threads \ {t} :
        /\ threads[t].pc = "returned"
        /\ threads[t].result.is_compound
        /\ threads[u].pc = "running"
        /\ TopOf(threads[u].stack).at = "joiner"
        /\ Truthy(TopOf(threads[u].stack).best)
        /\ threads[u].stack[1].word # threads[t].result.word

\* the single-call step machine and the per-thread step operators take the
\* same steps
StepsAgree ==
    pc = "running" =>
        LET c == [pc |-> pc, stack |-> stack, result |-> result]
            d == IF Top.at = "enter" THEN Entered(words, c)
                 ELSE IF Top.at = "scan" THEN Scanned(words, c)
                 ELSE Joined(words, c)
        IN  /\ pc' = d.pc
            /\ stack' = d.stack
            /\ result' = d.result

RunMatchesThreads == [][StepsAgree]_vars

(***************************************************************************)
(* ConsistencyChecker (src/src/svlang/checkers/consistency.py).            *)
(* _entries is a dict of dicts; a dict is modelled as the sequence of its  *)
(* items in insertion order, the order "for ... in dict.items()" follows.  *)
(***************************************************************************)
\* the characters in code point order, as str comparison orders them
CodeOrder ==
    << " ", ".", ":",
       "A", "B", "C", "D", "E", "F", "G", "H", "I", "J", "K", "L", "M",
       "N", "O", "P", "Q", "R", "S", "T", "U", "V", "W", "X", "Y", "Z",
       "a", "b", "c", "d", "e", "f", "g", "h", "i", "j", "k", "l", "m",
       "n", "o", "p", "q", "r", "s", "t", "u", "v", "w", "x", "y", "z",
       "AE", "AA", "OE", "ae", "aa", "oe" >>

\* the rank of a character in code point order
CodePoint(c) == CHOOSE n \in 1..Len(CodeOrder) : CodeOrder[n] = c

\* a < b for two str values
RECURSIVE StrLess(_, _)
StrLess(a, b) ==
    IF b = <<>> THEN FALSE
    ELSE IF a = <<>> THEN TRUE
    ELSE IF Head(a) # Head(b) THEN CodePoint(Head(a)) < CodePoint(Head(b))
    ELSE StrLess(Tail(a), Tail(b))

\* mutant: _normalize without the test of self._case_sensitive
NormalizeIgnoresMode(case_sensitive, text) == Lower(text)

\* ConsistencyChecker._normalize
Normalize(case_sensitive, text) == IF case_sensitive THEN text ELSE Lower(text)

\* the position of key in the items of a dict, 0 when it is no key
IndexOf(items, key) ==
    IF \E n \in 1..Len(items) : items[n].key = key
    THEN CHOOSE n \in 1..Len(items) : items[n].key = key
    ELSE 0

\* "if key not in d: d[key] = empty"
WithKey(items, key, empty) ==
    IF IndexOf(items, key) = 0
    THEN Append(items, [key |-> key, value |-> empty])
    ELSE items

\* ConsistencyChecker.add: _entries after add(source_text, translation,
\* location), source_text being the argument "source"
Add(case_sensitive, entries, source_text, translation, location) ==
    LET key         == Normalize(case_sensitive, source_text)
        keyed       == WithKey(entries, key, <<>>)
        n           == IndexOf(keyed, key)
        norm_trans  == Normalize(case_sensitive, translation)
        translated  == WithKey(keyed[n].value, norm_trans, <<>>)
        m           == IndexOf(translated, norm_trans)
    IN  [keyed EXCEPT ![n].value =
            [translated EXCEPT ![m].value = Append(@, location)]]

\* Inconsistency(source, translations)
Inconsistency(source_text, translations) ==
    [source |-> source_text, translations |-> translations]

\* list.sort(key=lambda i: i.source) inserts one issue: a stable sort keeps
\* it behind the issues that do not sort after it
RECURSIVE Inserted(_, _)
Inserted(sorted, issue) ==
    IF sorted = <<>> THEN <<issue>>
    ELSE IF StrLess(issue.source, Head(sorted).source)
    THEN <<issue>> \o sorted
    ELSE <<Head(sorted)>> \o Inserted(Tail(sorted), issue)

RECURSIVE SortedBySource(_)
SortedBySource(list) ==
    IF list = <<>> THEN <<>>
    ELSE Inserted(SortedBySource(SubSeq(list, 1, Len(list) - 1)), list[Len(list)])

\* the issues check() collects before sorting, in the order of _entries
RECURSIVE Collected(_)
Collected(entries) ==
    IF entries = <<>> THEN <<>>
    ELSE (IF Len(Head(entries).value) > 1
          THEN <<Inconsistency(Head(entries).key, Head(entries).value)>>
          ELSE <<>>) \o Collected(Tail(entries))

\* ConsistencyChecker.check
Check(entries) == SortedBySource(Collected(entries))

\* the strings handed to add
t_Save == <<"S","a","v","e">>

t_save == <<"s","a","v","e">>

t_Saved == <<"S","a","v","e","d">>

t_Open == <<"O","p","e","n">>

t_Spara == <<"S","p","a","r","a">>

t_spara == <<"s","p","a","r","a">>

t_Lagra == <<"L","a","g","r","a">>

t_location == <<"a",".","p","o",":","1">>

SourceTexts == {t_Save, t_save, t_Saved, t_Open}

TranslationTexts == {t_Spara, t_spara, t_Lagra}

\* the number of locations held for one source
RECURSIVE LocationsOf(_)
LocationsOf(translations) ==
    IF translations = <<>> THEN 0
    ELSE Len(Head(translations).value) + LocationsOf(Tail(translations))

\* the number of add calls so far: every call appends one location
RECURSIVE AddCalls(_)
AddCalls(entries) ==
    IF entries = <<>> THEN 0
    ELSE LocationsOf(Head(entries).value) + AddCalls(Tail(entries))

\* ConsistencyChecker(case_sensitive=...)
InitConsistency ==
    /\ NoSplitter
    /\ NoThreads
    /\ NoLexicon
    /\ \E case_sensitive \in BOOLEAN :
          checker = [case_sensitive |-> case_sensitive, entries |-> <<>>]
    /\ issues = None
    /\ added = {}

\* checker.add(source_text, translation, location)
AddCall(source_text, translation, location) ==
    /\ AddCalls(checker.entries) < MaxAdds
    /\ checker' = [checker EXCEPT
                     !.entries = Add(checker.case_sensitive, @, source_text, translation,
                                     location)]
    /\ issues' = None
    /\ added' = added \cup {<<source_text, translation>>}
    /\ UNCHANGED <<words, source, pc, result, stack>>
    /\ UNCHANGED <<threads, lexicon, found>>

\* issues = checker.check()
CheckCall ==
    /\ issues' = Some(Check(checker.entries))
    /\ UNCHANGED <<checker, added>>
    /\ UNCHANGED <<words, source, pc, result, stack>>
    /\ UNCHANGED <<threads, lexicon, found>>

AddAny ==
    \E source_text \in SourceTexts : \E translation \in TranslationTexts :
        AddCall(source_text, translation, t_location)

NextConsistency == AddAny \/ CheckCall

SpecConsistency == InitConsistency /\ [][NextConsistency]_vars

(***************************************************************************)
(* C15                                                                     *)
(***************************************************************************)
\* a string as the checker compares it: as it is, or lowercased
Compared(text) == IF checker.case_sensitive THEN text ELSE Lower(text)

\* the source keys added so far
AddedKeys == { Compared(p[1]) : p \in added }

\* the distinct translations added so far for the source key
AddedTranslations(key) ==
    { Compared(p[2]) : p \in { q \in added : Compared(q[1]) = key } }

\* the source keys added with two or more distinct translations
InconsistentKeys == { key \in AddedKeys : Cardinality(AddedTranslations(key)) >= 2 }

\* C15: after any sequence of add calls check() returns one Inconsistency for
\* each source key added with two or more distinct translations and none for
\* any other, in ascending order of source, keys and translations compared as
\* they are when case_sensitive and lowercased otherwise; a repeated check()
\* returns the same.
C15_CheckReportsInconsistentSources ==
    issues.some =>
        LET list == issues.val
        IN  /\ Len(list) = Cardinality(InconsistentKeys)
            /\ { list[n].source : n \in 1..Len(list) } = InconsistentKeys
            /\ \A n \in 1..(Len(list) - 1) : StrLess(list[n].source, list[n + 1].source)
            /\ \A n \in 1..Len(list) :
                  { list[n].translations[m].key : m \in 1..Len(list[n].translations) }
                      = AddedTranslations(list[n].source)

\* case-insensitive: Save has Spara, spara and Lagra, two distinct
\* translations, and check() has returned the one issue
C15_Witness ==
    /\ issues.some
    /\ ~checker.case_sensitive
    /\ {<<t_Save, t_Spara>>, <<t_save, t_spara>>, <<t_Save, t_Lagra>>} \subseteq added
    /\ Len(issues.val) = 1
    /\ issues.val[1].source = t_save

\* case-sensitive: two sources are inconsistent, added in descending order,
\* and check() has returned them in ascending order
C15_WitnessOrdered ==
    /\ issues.some
    /\ checker.case_sensitive
    /\ Len(issues.val) = 2
    /\ Len(checker.entries) = 2
    /\ StrLess(checker.entries[2].key, checker.entries[1].key)

(***************************************************************************)
(* SwedishLexicon (src/src/svlang/checkers/lexicon.py).  _dict is modelled *)
(* as the sequence of its items in insertion order.  The lines of          *)
(* data/folkets_sv_en.tsv hold "\t" between the Swedish word and its       *)
(* translations and "," between translations.                              *)
(***************************************************************************)
\* the position of the first c in text, 0 when there is none
FirstIndex(text, c) ==
    IF \E n \in 1..Len(text) : text[n] = c
    THEN CHOOSE n \in 1..Len(text) : text[n] = c /\ \A m \in 1..(n - 1) : text[m] # c
    ELSE 0

\* str.split(",")
RECURSIVE SplitCommas(_)
SplitCommas(text) ==
    LET n == FirstIndex(text, ",")
    IN  IF n = 0 THEN <<text>>
        ELSE <<SubSeq(text, 1, n - 1)>> \o SplitCommas(SubSeq(text, n + 1, Len(text)))

\* "d[key] = value": a new key goes last, a known key keeps its place
Put(items, key, value) ==
    IF IndexOf(items, key) = 0
    THEN Append(items, [key |-> key, value |-> value])
    ELSE [items EXCEPT ![IndexOf(items, key)].value = value]

\* one line of the file read by _load
LoadLine(items, line) ==
    IF StartsWith(line, <<"#">>) \/ FirstIndex(line, "\t") = 0
    THEN items
    ELSE LET tab == FirstIndex(line, "\t")
             sv  == SubSeq(line, 1, tab - 1)
             en  == SubSeq(line, tab + 1, Len(line))
             ens == SplitCommas(en)
         IN  Put(items, Strip(sv), [ n \in 1..Len(ens) |-> Strip(ens[n]) ])

\* SwedishLexicon._load: no file, no entries
RECURSIVE LoadLines(_, _)
LoadLines(items, lines) ==
    IF lines = <<>> THEN items
    ELSE LoadLines(LoadLine(items, Head(lines)), Tail(lines))

Load(file) == IF file.some THEN LoadLines(<<>>, file.val) ELSE <<>>

\* LookupResult(word, translations, found)
LookupResult(word, translations, is_found) ==
    [word |-> word, translations |-> translations, found |-> is_found]

\* "for sv, ens in self._dict.items()" of search, from the item at the head
\* of items on, with the results found so far
RECURSIVE SearchFrom(_, _, _, _)
SearchFrom(items, prefix, limit, results) ==
    IF items = <<>> THEN results
    ELSE IF StartsWith(Head(items).key, prefix)
    THEN LET more == Append(results, LookupResult(Head(items).key, Head(items).value, TRUE))
         IN  IF Len(more) >= limit THEN more
             ELSE SearchFrom(Tail(items), prefix, limit, more)
    ELSE SearchFrom(Tail(items), prefix, limit, results)

\* SwedishLexicon.search
Search(items, prefix, limit) == SearchFrom(items, Strip(Lower(prefix)), limit, <<>>)

\* "part in text" for two str values
Contains(text, part) ==
    \E n \in 0..(Len(text) - Len(part)) : SubSeq(text, n + 1, n + Len(part)) = part

\* "for sv, ens in self._dict.items()" of reverse_lookup
RECURSIVE ReverseFrom(_, _, _, _)
ReverseFrom(items, eng_lower, limit, results) ==
    IF items = <<>> THEN results
    ELSE IF \E n \in 1..Len(Head(items).value) :
                Contains(Lower(Head(items).value[n]), eng_lower)
    THEN LET more == Append(results, LookupResult(Head(items).key, Head(items).value, TRUE))
         IN  IF Len(more) >= limit THEN more
             ELSE ReverseFrom(Tail(items), eng_lower, limit, more)
    ELSE ReverseFrom(Tail(items), eng_lower, limit, results)

\* SwedishLexicon.reverse_lookup
ReverseLookup(items, english, limit) ==
    ReverseFrom(items, Strip(Lower(english)), limit, <<>>)

\* lines of the lexicon file
l_bil == <<"b","i","l","\t","c","a","r">>

l_bild == <<"b","i","l","d","\t","p","i","c","t","u","r","e",","," ","i","m","a","g","e">>

l_bok == <<" ","b","o","k","\t","B","o","o","k">>

l_note == <<"#"," ","s","v","\t","e","n">>

LexiconLines == {l_bil, l_bild, l_bok, l_note}

\* the lexicon files: up to MaxLines lines, or no file
LexiconFiles ==
    { Some(lines) : lines \in UNION { [1..n -> LexiconLines] : n \in 0..MaxLines } }
    \cup {None}

\* the arguments of search and reverse_lookup
Prefixes == { <<"b","i">>, <<"B","i","l">>, <<" ","b"," ">>, <<"x">>, <<>> }

EnglishWords == { <<"c","a","r">>, <<"B","O","O","K"," ">>, <<"i">>, <<"z">> }

Limits == (0 - 1)..MaxLimit

\* SwedishLexicon()
InitLexicon ==
    /\ NoSplitter
    /\ NoThreads
    /\ NoChecker
    /\ \E file \in LexiconFiles : lexicon = Load(file)
    /\ found = NoQuery

\* lex.search(prefix, limit)
SearchCall(prefix, limit) ==
    /\ found' = [op |-> "search", arg |-> prefix, limit |-> limit,
                 results |-> Search(lexicon, prefix, limit)]
    /\ UNCHANGED lexicon
    /\ UNCHANGED <<words, source, pc, result, stack>>
    /\ UNCHANGED <<threads, checker, issues, added>>

\* lex.reverse_lookup(english, limit)
ReverseLookupCall(english, limit) ==
    /\ found' = [op |-> "reverse_lookup", arg |-> english, limit |-> limit,
                 results |-> ReverseLookup(lexicon, english, limit)]
    /\ UNCHANGED lexicon
    /\ UNCHANGED <<words, source, pc, result, stack>>
    /\ UNCHANGED <<threads, checker, issues, added>>

SearchAny == \E prefix \in Prefixes : \E limit \in Limits : SearchCall(prefix, limit)

ReverseLookupAny ==
    \E english \in EnglishWords : \E limit \in Limits : ReverseLookupCall(english, limit)

NextLexicon == SearchAny \/ ReverseLookupAny

SpecLexicon == InitLexicon /\ [][NextLexicon]_vars

(***************************************************************************)
(* C16                                                                     *)
(***************************************************************************)
\* C16 as stated: search and reverse_lookup return at most limit results,
\* limit = 0 included, and every result of search has a word that starts
\* with the lowercased, stripped prefix.
C16_AtMostLimitResults ==
    found.op # "none" =>
        /\ found.limit >= 0 => Len(found.results) <= found.limit
        /\ found.op = "search" =>
              \A n \in 1..Len(found.results) :
                  StartsWith(found.results[n].word, Strip(Lower(found.arg)))

(***************************************************************************)
(* C21: the searches _try_split is compared with.  Both run the joiner     *)
(* loop, the depth bound and the base rule of _try_split, call themselves  *)
(* on the rest, keep a candidate only when it has strictly fewer parts     *)
(* than the best so far, and never leave the split-point loop early; one   *)
(* takes the split points from the longest prefix down, the other from the *)
(* shortest prefix up.                                                     *)
(***************************************************************************)
\* the next split point at or above i whose prefix is a dictionary word, 0
\* when there is none
NextSplitPointUp(W, word, i) ==
    LET viable == { j \in i..(Len(word) - MinPartLen) : SubSeq(word, 1, j) \in W }
    IN  IF viable = {} THEN 0
        ELSE CHOOSE j \in viable : \A m \in viable : j <= m

RECURSIVE TrySplitNoExit(_, _, _, _)
RECURSIVE ScanNoExit(_, _, _, _, _, _)
RECURSIVE JoinersNoExit(_, _, _, _, _, _, _)

\* the joiner loop for one dictionary prefix
JoinersNoExit(W, prefix, remainder, depth, k, best, ascending) ==
    LET j == NextJoiner(remainder, k)
    IN  IF j > Len(JOINERS) THEN best
        ELSE LET rest == Rest(remainder, JOINERS[j])
             IN  IF rest = <<>>
                 THEN JoinersNoExit(W, prefix, remainder, depth, j + 1, best, ascending)
                 ELSE IF rest \in W
                 THEN JoinersNoExit(W, prefix, remainder, depth, j + 1,
                                    Better(best, <<prefix, rest>>), ascending)
                 ELSE LET sub == TrySplitNoExit(W, rest, depth + 1, ascending)
                      IN  IF Truthy(sub)
                          THEN JoinersNoExit(W, prefix, remainder, depth, j + 1,
                                             Better(best, Extend(prefix, sub.val)),
                                             ascending)
                          ELSE JoinersNoExit(W, prefix, remainder, depth, j + 1, best,
                                             ascending)

\* the split-point loop over all split points, from prefix length from on
ScanNoExit(W, word, depth, from, best, ascending) ==
    LET i == IF ascending THEN NextSplitPointUp(W, word, from)
             ELSE NextSplitPoint(W, word, from)
    IN  IF i < MinPartLen THEN best
        ELSE LET prefix    == SubSeq(word, 1, i)
                 remainder == SubSeq(word, i + 1, Len(word))
                 better    == JoinersNoExit(W, prefix, remainder, depth, 1, best, ascending)
             IN  ScanNoExit(W, word, depth, IF ascending THEN i + 1 ELSE i - 1, better,
                            ascending)

\* the search without the short-circuit
TrySplitNoExit(W, word, depth, ascending) ==
    IF TooDeep(depth) THEN None
    ELSE IF Len(word) < MinPartLen * 2
    THEN IF word \in W THEN Some(<<word>>) ELSE None
    ELSE ScanNoExit(W, word, depth,
                    IF ascending THEN MinPartLen ELSE FirstSplitPoint(word),
                    None, ascending)

\* the number of parts of what a search returns, 0 for None
PartCount(parts) == IF parts.some THEN Len(parts.val) ELSE 0

\* C21: _try_split returns the parts list the longest-prefix-first search
\* over all split points returns, and as many parts as the
\* shortest-prefix-first search over all split points; a compound result of
\* split holds that parts list.
C21_EarlyExitIsOptimisation ==
    Returned /\ Len(result.word) >= 2 =>
        LET parts    == TrySplit(words, lowered, 0)
            longest  == TrySplitNoExit(words, lowered, 0, FALSE)
            shortest == TrySplitNoExit(words, lowered, 0, TRUE)
        IN  /\ parts = longest
            /\ PartCount(parts) = PartCount(shortest)
            /\ result.is_compound => result.parts = longest.val

\* 'sjukhusbyggnad' has come back as [sjukhus, byggnad], left the loop at its
\* first prefix, while the shortest-prefix-first search returns the other
\* two-part reading
C21_Witness ==
    /\ Returned
    /\ words = WordlistHospital
    /\ lowered = w_sjukhusbyggnad
    /\ result.parts = <<w_sjukhus, w_byggnad>>
    /\ TrySplitNoExit(words, lowered, 0, FALSE) = Some(result.parts)
    /\ TrySplitNoExit(words, lowered, 0, TRUE) = Some(<<w_sjuk, w_husbyggnad>>)

\* a three-part candidate at the longest prefix has given way to a two-part
\* candidate at a shorter prefix: the loop went on past a prefix with a
\* candidate in hand
C21_WitnessNoExit ==
    /\ Returned
    /\ words = WordlistFewest
    /\ lowered = w_sjukhusbilpark
    /\ result.parts = <<w_sjuk, w_husbilpark>>
    /\ TrySplitNoExit(words, lowered, 0, FALSE) = Some(result.parts)

====
